---- MODULE Spec2Model ----
(***************************************************************************)
(* PushPopActor (src/src/push_pop_actor/actor.py): a per-actor segmented   *)
(* multi-priority FIFO queue with pop-with-acknowledgement (one lock at a  *)
(* time) and offloading of full segments to a state store.                 *)
(*                                                                         *)
(* The actor runtime executes one method of an actor at a time, so every   *)
(* method (Push, Pop, PopWithAck, Acknowledge) is one atomic action.  The  *)
(* state manager hands out the cached objects themselves, so the metadata  *)
(* dict that the helpers mutate is one shared object: the model keeps one  *)
(* copy of it (config, queues, lock).                                      *)
(*                                                                         *)
(* Items are dicts in the program; here every pushed item is the number    *)
(* of the Push that created it, so that two items are never confused.      *)
(***************************************************************************)
EXTENDS Integers, Sequences, FiniteSets, TLC

\* ---------------------------------------------------------------- bounds
MaxPush == 3            \* Pushes with a valid item in one behaviour
MaxPushCapacity == 5    \* the same, for the one-priority queue of SpecCapacity
MaxTime == 1            \* the clock runs from 0 to MaxTime
NumPriorities == 2      \* priorities 0 .. NumPriorities-1 are pushed to
MaxSegmentSize == 2     \* config.segment_size ranges over 1 .. MaxSegmentSize
MaxBufferSegments == 1  \* config.buffer_segments ranges over 0 .. MaxBufferSegments
MaxBulkOps == 3         \* state-store calls of one invocation that may fail

\* ------------------------------------------------------ program constants
DefaultTtl == 30        \* data.get("ttl_seconds", 30)
DefaultSegmentSize == 100      \* segment_size of the metadata _on_activate writes
DefaultBufferSegments == 1     \* buffer_segments of the same
MinTtl == 1             \* max(.., 1)
MaxTtl == 300           \* min(.., 300)

None == -1              \* Python None / an absent dict key
NoLock == [lock_id |-> None]   \* "_active_lock" not in metadata
NoMetadata == [has_metadata |-> FALSE]   \* no "metadata" key in actor state

Priorities == 0 .. (NumPriorities - 1)

\* the values data.get("priority", 0) can have: a Python value is its type
\* and, for the numeric types, its integer part
PyInt(n) == [type |-> "int", value |-> n]
PyTrue == [type |-> "bool", value |-> 1]     \* True == 1
PyFloat == [type |-> "float", value |-> 1]   \* 1.5, or any str, None, ...

\* isinstance(priority, int): bool is a subclass of int
IsInstanceInt(v) == v.type \in {"int", "bool"}

\* the <priority> part of f"queue_{priority}": str(True) is "True", which
\* is the text of no integer; it is written here as the number TrueKey,
\* which is the priority of no accepted integer (those are >= 0)
TrueKey == -2
Format(v) == IF v.type = "bool" THEN TrueKey ELSE v.value
LockIds == {1, 2}                       \* values of secrets.token_urlsafe(8)
TtlInputs == {0, 400}                   \* data.get("ttl_seconds")
\* ttl_seconds absent, below, at and above the limits, and in between
TtlValues == {None, -5, 0, 1, 2, 300, 301}
Oracles == [1 .. MaxBulkOps -> BOOLEAN] \* which state-store calls succeed
AllOk == [i \in 1 .. MaxBulkOps |-> TRUE]
NoneOk == [i \in 1 .. MaxBulkOps |-> FALSE]

VARIABLES
    config,     \* metadata["config"]: [segment_size, buffer_segments]
    queues,     \* metadata["queues"]: priority -> queue metadata record
    lock,       \* metadata["_active_lock"], or NoLock
    segs,       \* actor state: <<priority, segment>> -> list of items
    bulk,       \* state store: <<priority, segment>> -> JSON blob
    now,        \* time.time()
    res,        \* what the last method call returned
    pushed,     \* history: per priority, the items pushed, in order
    status,     \* history: what last happened to each item
    popped,     \* history: number of items returned by Pop
    acked       \* history: number of items successfully acknowledged

vars == <<config, queues, lock, segs, bulk, now, res, pushed, status, popped, acked>>

\* ------------------------------------------------------------ small helpers
Min(a, b) == IF a < b THEN a ELSE b
Max(a, b) == IF a > b THEN a ELSE b

Restrict(f, S) == [x \in S |-> f[x]]

Put(f, k, v) == [x \in (DOMAIN f) \cup {k} |-> IF x = k THEN v ELSE f[x]]

Remove(f, k) == Restrict(f, (DOMAIN f) \ {k})

RECURSIVE SortedSeq(_)
SortedSeq(S) ==
    IF S = {} THEN <<>>
    ELSE LET m == CHOOSE x \in S : \A y \in S : x <= y
         IN <<m>> \o SortedSeq(S \ {m})

\* ------------------------------------------------- metadata helper methods
EmptyQueueMetadata ==
    [count |-> 0, head_segment |-> 0, tail_segment |-> 0,
     head_offloaded_segment |-> None, tail_offloaded_segment |-> None]

GetQueueCount(q, p) == IF p \in DOMAIN q THEN q[p].count ELSE 0

SetQueueCount(q, p, c) ==
    IF p \in DOMAIN q THEN [q EXCEPT ![p].count = c]
    ELSE Put(q, p, [EmptyQueueMetadata EXCEPT !.count = c])

\* a slip: the whole "queues" map is emptied
DeleteEveryQueue(q, p) == Restrict(q, {})

\* _delete_queue_metadata
DeleteQueueMetadata(q, p) == Remove(q, p)

\* keys whose <priority> part int() cannot parse are skipped
GetPriorityKeys(q) == SortedSeq({k \in DOMAIN q : k >= 0})

GetSegmentSize(cfg) == cfg.segment_size

GetBufferSegments(cfg) == cfg.buffer_segments

GetHeadSegment(q, p) == IF p \in DOMAIN q THEN q[p].head_segment ELSE 0

GetTailSegment(q, p) == IF p \in DOMAIN q THEN q[p].tail_segment ELSE 0

SetSegmentPointers(q, p, h, t) ==
    LET q1 == IF p \in DOMAIN q THEN q ELSE Put(q, p, EmptyQueueMetadata)
    IN [q1 EXCEPT ![p].head_segment = h, ![p].tail_segment = t]

GetOffloadedRange(q, p) ==
    IF p \in DOMAIN q /\ q[p].head_offloaded_segment # None
                      /\ q[p].tail_offloaded_segment # None
    THEN <<q[p].head_offloaded_segment, q[p].tail_offloaded_segment>>
    ELSE <<>>

AddOffloadedSegment(q, p, n) ==
    LET q1 == IF p \in DOMAIN q THEN q ELSE Put(q, p, EmptyQueueMetadata)
    IN IF q1[p].head_offloaded_segment = None
       THEN [q1 EXCEPT ![p].head_offloaded_segment = n,
                       ![p].tail_offloaded_segment = n]
       ELSE [q1 EXCEPT ![p].tail_offloaded_segment = n]

RemoveOffloadedSegment(q, p, n) ==
    IF p \in DOMAIN q /\ q[p].head_offloaded_segment # None
                      /\ q[p].tail_offloaded_segment # None
                      /\ n = q[p].head_offloaded_segment
    THEN IF q[p].head_offloaded_segment = q[p].tail_offloaded_segment
         THEN [q EXCEPT ![p].head_offloaded_segment = None,
                        ![p].tail_offloaded_segment = None]
         ELSE [q EXCEPT ![p].head_offloaded_segment = @ + 1]
    ELSE q

\* json.dumps / StateResponse.json(): the blob is not the list itself
JsonDumps(data) == [json |-> data]

JsonLoads(blob) == blob.json

\* try_get_state(segment_key): <<has_segment, segment>>
HasState(s, key) == key \in DOMAIN s

\* does state-store call number k of this invocation succeed
BulkOk(o, k) == IF k \in DOMAIN o THEN o[k] ELSE TRUE

\* ------------------------------------------------------------------------
\* The methods below are functions on a "world" w: the metadata (queues,
\* lock), the actor state (segs), the state store (bulk), the number k of
\* state-store calls made so far in this invocation and the number of
\* save_state() calls made so far (saves).  o is the invocation's oracle.
\* ------------------------------------------------------------------------
World(q, l, s, b) == [queues |-> q, lock |-> l, segs |-> s, bulk |-> b, k |-> 0, saves |-> 0]

\* a slip in the order: the segment is dropped from actor state before the
\* state store has taken it
OffloadSegmentEager(w, p, n, data, o) ==
    LET w1 == [w EXCEPT !.k = @ + 1,
                        !.queues = AddOffloadedSegment(@, p, n),
                        !.segs = Remove(@, <<p, n>>)]
    IN IF ~BulkOk(o, w1.k)
       THEN w1
       ELSE [w1 EXCEPT !.bulk = Put(@, <<p, n>>, JsonDumps(data)),
                       !.saves = @ + 1]

\* _offload_segment
OffloadSegment(w, p, n, data, o) ==
    LET w1 == [w EXCEPT !.k = @ + 1]
    IN IF ~BulkOk(o, w1.k)
       THEN w1                  \* client.save_state raised: caught, nothing done
       ELSE [w1 EXCEPT !.bulk = Put(@, <<p, n>>, JsonDumps(data)),
                       !.queues = AddOffloadedSegment(@, p, n),
                       !.segs = Remove(@, <<p, n>>),
                       !.saves = @ + 1]

\* a slip: the segment read from the state store is not put into actor state
LoadOffloadedSegmentLost(w, p, n, o) ==
    LET w1 == [w EXCEPT !.k = @ + 1]
    IN IF ~BulkOk(o, w1.k) THEN w1
       ELSE IF <<p, n>> \notin DOMAIN w1.bulk THEN w1
       ELSE [w1 EXCEPT !.queues = RemoveOffloadedSegment(@, p, n),
                       !.bulk = Remove(@, <<p, n>>),
                       !.k = @ + 1,
                       !.saves = @ + 1]

\* _load_offloaded_segment
LoadOffloadedSegment(w, p, n, o) ==
    LET w1 == [w EXCEPT !.k = @ + 1]
    IN IF ~BulkOk(o, w1.k) THEN w1            \* client.get_state raised
       ELSE IF <<p, n>> \notin DOMAIN w1.bulk THEN w1   \* not result.data
       ELSE LET segment_data == JsonLoads(w1.bulk[<<p, n>>])
                w2 == [w1 EXCEPT !.segs = Put(@, <<p, n>>, segment_data),
                                 !.queues = RemoveOffloadedSegment(@, p, n),
                                 !.k = @ + 1]
            IN IF segment_data = <<>> THEN w1
               ELSE IF ~BulkOk(o, w2.k)
                    THEN w2            \* client.delete_state raised
                    ELSE [w2 EXCEPT !.bulk = Remove(@, <<p, n>>),
                                    !.saves = @ + 1]

\* the for loop of _check_and_offload_segments, from segment_num = n
RECURSIVE OffloadLoop(_, _, _, _, _, _, _)
OffloadLoop(w, p, n, max_offload, offloaded_range, segment_size, o) ==
    IF n >= max_offload THEN w
    ELSE LET skip == /\ offloaded_range # <<>>
                     /\ offloaded_range[1] <= n
                     /\ n <= offloaded_range[2]
             full == /\ HasState(w.segs, <<p, n>>)
                     /\ Len(w.segs[<<p, n>>]) = segment_size
             w1 == IF ~skip /\ full
                   THEN OffloadSegment(w, p, n, w.segs[<<p, n>>], o)
                   ELSE w
         IN OffloadLoop(w1, p, n + 1, max_offload, offloaded_range, segment_size, o)

\* a slip in the first eligible segment: the last segment of the buffer goes
MinOffloadEarly(head_segment, buffer_segments) == head_segment + buffer_segments

\* min_offload = head_segment + buffer_segments + 1
MinOffload(head_segment, buffer_segments) == head_segment + buffer_segments + 1

\* _check_and_offload_segments
CheckAndOffloadSegments(w, cfg, p, o) ==
    IF p \notin DOMAIN w.queues THEN w
    ELSE LET head_segment == GetHeadSegment(w.queues, p)
             tail_segment == GetTailSegment(w.queues, p)
             buffer_segments == GetBufferSegments(cfg)
             min_offload == MinOffload(head_segment, buffer_segments)
             max_offload == tail_segment
         IN OffloadLoop(w, p, min_offload, max_offload,
                        GetOffloadedRange(w.queues, p), GetSegmentSize(cfg), o)

\* the for loop of _check_and_load_segments, from segment_num = n
RECURSIVE LoadLoop(_, _, _, _, _, _)
LoadLoop(w, p, n, tail_offloaded, max_offloaded, o) ==
    IF n > tail_offloaded THEN w
    ELSE IF n <= max_offloaded
         THEN LoadLoop(LoadOffloadedSegment(w, p, n, o), p, n + 1,
                       tail_offloaded, max_offloaded, o)
         ELSE w

\* a slip in the last segment to reload: the end of the buffer stays offloaded
MaxOffloadedShort(head_segment, buffer_segments) == head_segment + buffer_segments - 1

\* max_offloaded = head_segment + buffer_segments
MaxOffloaded(head_segment, buffer_segments) == head_segment + buffer_segments

\* _check_and_load_segments
CheckAndLoadSegments(w, cfg, p, o) ==
    LET offloaded_range == GetOffloadedRange(w.queues, p)
    IN IF offloaded_range = <<>> THEN w
       ELSE LET head_segment == GetHeadSegment(w.queues, p)
                max_offloaded == MaxOffloaded(head_segment, GetBufferSegments(cfg))
            IN LoadLoop(w, p, offloaded_range[1], offloaded_range[2],
                        max_offloaded, o)

\* a slip in the comparison: a segment of segment_size items takes one more
IsFullStrict(segment, segment_size) == Len(segment) > segment_size

\* len(segment) >= segment_size
IsFull(segment, segment_size) == Len(segment) >= segment_size

\* Push, after the validation of its arguments, up to its save_state()
PushCommit(w, cfg, p, item) ==
    LET tail0 == GetTailSegment(w.queues, p)
        seg0 == IF HasState(w.segs, <<p, tail0>>) THEN w.segs[<<p, tail0>>] ELSE <<>>
        isFull == IsFull(seg0, GetSegmentSize(cfg))
        tail_segment == IF isFull THEN tail0 + 1 ELSE tail0
        segment == Append(IF isFull THEN <<>> ELSE seg0, item)
        current_count == GetQueueCount(w.queues, p)
        head_segment == GetHeadSegment(w.queues, p)
        q1 == SetQueueCount(w.queues, p, current_count + 1)
        q2 == SetSegmentPointers(q1, p, head_segment, tail_segment)
    IN [w EXCEPT !.segs = Put(@, <<p, tail_segment>>, segment),
                 !.queues = q2,
                 !.saves = @ + 1]

\* Push, after the validation of its arguments
PushItem(w, cfg, p, item, o) ==
    CheckAndOffloadSegments(PushCommit(w, cfg, p, item), cfg, p, o)

\* a slip: the head pointer stays on the drained segment
StayOnHead(head_segment) == head_segment

\* head_segment += 1
AdvanceHead(head_segment) == head_segment + 1

\* a slip in the index: the last item is handed out
LastItem(segment) == segment[Len(segment)]

\* item = segment[0]
FirstItem(segment) == Head(segment)

\* segment = segment[1:]
RestItems(segment) == Tail(segment)

\* the for loop of Pop over priority_keys, from index i; the result is the
\* world left behind and the returned list
RECURSIVE PopLoop(_, _, _, _, _)
PopLoop(w, cfg, priority_keys, i, o) ==
    IF i > Len(priority_keys) THEN [w |-> w, items |-> <<>>, priority |-> None]
    ELSE
    LET priority == priority_keys[i]
        count == GetQueueCount(w.queues, priority)
    IN IF count = 0 THEN PopLoop(w, cfg, priority_keys, i + 1, o)
       ELSE
       LET w1 == CheckAndLoadSegments(w, cfg, priority, o)
           head_segment == GetHeadSegment(w1.queues, priority)
           tail_segment == GetTailSegment(w1.queues, priority)
           segment_key == <<priority, head_segment>>
           has_segment == HasState(w1.segs, segment_key)
           segment0 == IF has_segment THEN w1.segs[segment_key] ELSE <<>>
       IN IF ~has_segment \/ segment0 = <<>>
          THEN \* count desync: the record is dropped, nothing is saved here
               PopLoop([w1 EXCEPT !.queues = DeleteQueueMetadata(@, priority)],
                       cfg, priority_keys, i + 1, o)
          ELSE
          LET item == FirstItem(segment0)
              segment == RestItems(segment0)
              w2 == IF segment = <<>>
                    THEN IF head_segment < tail_segment
                         THEN [w1 EXCEPT
                                 !.segs = Put(@, segment_key, <<>>),
                                 !.queues = SetSegmentPointers(
                                               SetQueueCount(@, priority, count - 1),
                                               priority, AdvanceHead(head_segment), tail_segment),
                                 !.saves = @ + 1]
                         ELSE [w1 EXCEPT
                                 !.segs = Put(@, segment_key, <<>>),
                                 !.queues = DeleteQueueMetadata(@, priority),
                                 !.saves = @ + 1]
                    ELSE [w1 EXCEPT
                            !.segs = Put(@, segment_key, segment),
                            !.queues = SetSegmentPointers(
                                          SetQueueCount(@, priority, count - 1),
                                          priority, head_segment, tail_segment),
                            !.saves = @ + 1]
          IN [w |-> w2, items |-> <<item>>, priority |-> priority]

\* a slip: Pop honours the lock as PopWithAck does
PopItemBlocked(w, cfg, o) ==
    IF w.lock # NoLock
    THEN [w |-> w, items |-> <<>>, priority |-> None]
    ELSE PopLoop(w, cfg, GetPriorityKeys(w.queues), 1, o)

\* Pop
PopItem(w, cfg, o) == PopLoop(w, cfg, GetPriorityKeys(w.queues), 1, o)

\* the keys of items_by_priority, in dict (first insertion) order
RECURSIVE GroupKeys(_)
GroupKeys(items_with_priority) ==
    IF items_with_priority = <<>> THEN <<>>
    ELSE LET init == SubSeq(items_with_priority, 1, Len(items_with_priority) - 1)
             last == items_with_priority[Len(items_with_priority)].priority
             keys == GroupKeys(init)
         IN IF \E j \in 1 .. Len(keys) : keys[j] = last
            THEN keys ELSE Append(keys, last)

\* items_by_priority[p]
RECURSIVE GroupItems(_, _)
GroupItems(items_with_priority, p) ==
    IF items_with_priority = <<>> THEN <<>>
    ELSE LET rest == GroupItems(Tail(items_with_priority), p)
             e == Head(items_with_priority)
         IN IF e.priority = p THEN <<e.item>> \o rest ELSE rest

\* a slip in the order of the operands: segment + items
AppendReturned(items, segment) == segment \o items

\* segment = items + segment
Prepend(items, segment) == items \o segment

\* the for loop of _return_items_to_queue over items_by_priority, from index i
RECURSIVE ReturnLoop(_, _, _, _, _, _)
ReturnLoop(w, cfg, items_with_priority, keys, i, o) ==
    IF i > Len(keys) THEN w
    ELSE
    LET priority == keys[i]
        items == GroupItems(items_with_priority, priority)
        w1 == CheckAndLoadSegments(w, cfg, priority, o)
        head_segment == GetHeadSegment(w1.queues, priority)
        segment_key == <<priority, head_segment>>
        segment0 == IF HasState(w1.segs, segment_key) THEN w1.segs[segment_key] ELSE <<>>
        segment == Prepend(items, segment0)
        current_count == GetQueueCount(w1.queues, priority)
        tail_segment == GetTailSegment(w1.queues, priority)
        w2 == [w1 EXCEPT
                 !.queues = SetSegmentPointers(
                               SetQueueCount(@, priority, current_count + Len(items)),
                               priority, head_segment, tail_segment),
                 !.segs = Put(@, segment_key, segment)]
    IN ReturnLoop(w2, cfg, items_with_priority, keys, i + 1, o)

\* _return_items_to_queue
ReturnItemsToQueue(w, cfg, items_with_priority, o) ==
    IF items_with_priority = <<>> THEN w
    ELSE LET w1 == ReturnLoop(w, cfg, items_with_priority,
                              GroupKeys(items_with_priority), 1, o)
         IN [w1 EXCEPT !.saves = @ + 1]

\* _return_items_to_queue when the state manager may fail: with ~sm_ok the
\* read of the head segment of the first priority raises, after the reloads
\* for that priority; the except clause logs it and the method returns
ReturnItemsToQueueSm(w, cfg, items_with_priority, o, sm_ok) ==
    IF sm_ok \/ items_with_priority = <<>>
    THEN ReturnItemsToQueue(w, cfg, items_with_priority, o)
    ELSE CheckAndLoadSegments(w, cfg, GroupKeys(items_with_priority)[1], o)

\* the for loop of PopWithAck over priority_keys, from index i
RECURSIVE PopWithAckLoop(_, _, _, _, _)
PopWithAckLoop(w, cfg, priority_keys, i, o) ==
    IF i > Len(priority_keys) THEN [w |-> w, items_with_priority |-> <<>>]
    ELSE
    LET priority == priority_keys[i]
        count == GetQueueCount(w.queues, priority)
    IN IF count = 0 THEN PopWithAckLoop(w, cfg, priority_keys, i + 1, o)
       ELSE
       LET w1 == CheckAndLoadSegments(w, cfg, priority, o)
           head_segment == GetHeadSegment(w1.queues, priority)
           tail_segment == GetTailSegment(w1.queues, priority)
           segment_key == <<priority, head_segment>>
           has_segment == HasState(w1.segs, segment_key)
           segment0 == IF has_segment THEN w1.segs[segment_key] ELSE <<>>
       IN IF ~has_segment \/ segment0 = <<>>
          THEN PopWithAckLoop([w1 EXCEPT !.queues = DeleteQueueMetadata(@, priority)],
                              cfg, priority_keys, i + 1, o)
          ELSE
          LET item == FirstItem(segment0)
              segment == RestItems(segment0)
              \* an emptied segment is written back only if more segments follow
              segs1 == IF segment = <<>>
                       THEN IF head_segment < tail_segment
                            THEN Put(w1.segs, segment_key, <<>>)
                            ELSE w1.segs
                       ELSE Put(w1.segs, segment_key, segment)
              head1 == IF segment = <<>> /\ head_segment < tail_segment
                       THEN AdvanceHead(head_segment) ELSE head_segment
              new_count == count - 1
              q1 == IF new_count = 0
                    THEN DeleteQueueMetadata(w1.queues, priority)
                    ELSE SetSegmentPointers(
                            SetQueueCount(w1.queues, priority, new_count),
                            priority, head1, tail_segment)
          IN [w |-> [w1 EXCEPT !.segs = segs1, !.queues = q1],
              items_with_priority |-> <<[item |-> item, priority |-> priority]>>]

\* a slip in the field: the lock is taken as live for no time at all
LockValidByCreation(l, t) == t < l.created_at

\* a slip in the comparison: a lock is expired only after expires_at
LockHasExpiredStrict(l, t) == t > l.expires_at

\* a slip in the comparison: time.time() > lock["expires_at"]
LockValidInverted(l, t) == t > l.expires_at

\* a slip in the comparison: the lock still blocks at the instant it expires
LockValidAtExpiry(l, t) == t <= l.expires_at

\* PopWithAck: time.time() < lock["expires_at"]
LockStillValid(l, t) == t < l.expires_at

\* Acknowledge: time.time() >= lock["expires_at"]
LockHasExpired(l, t) == t >= l.expires_at

\* a slip: the check for a missing lock_id is left out
NotGivenUnchecked(lock_id) == FALSE

\* Acknowledge: not lock_id, with lock_id = data.get("lock_id")
NotGiven(lock_id) == lock_id = None

\* a slip: any lock_id is taken for a match
LockIdIgnored(l, lock_id) == TRUE

\* Acknowledge: not (lock["lock_id"] != lock_id)
LockIdMatches(l, lock_id) == l.lock_id = lock_id

\* a slip in the count
ItemCountLess(l) == Len(l.items_with_priority) - 1

\* Acknowledge: item_count = len(lock["items_with_priority"])
ItemCount(l) == Len(l.items_with_priority)

\* a slip in the test: the negation is lost
HasItems(items_with_priority) == items_with_priority # <<>>

\* PopWithAck: not items_with_priority
NoItems(items_with_priority) == items_with_priority = <<>>

\* a slip: the lower limit of the ttl is lost
ClampTtlNoFloor(ttl_seconds) ==
    Min(IF ttl_seconds = None THEN DefaultTtl ELSE ttl_seconds, MaxTtl)

\* ttl = min(max(data.get("ttl_seconds", 30), 1), 300)
ClampTtl(ttl_seconds) ==
    Min(Max(IF ttl_seconds = None THEN DefaultTtl ELSE ttl_seconds, MinTtl), MaxTtl)

\* the items of a lock entry list: [entry["item"] for entry in ...]
ItemsOf(items_with_priority) ==
    [j \in 1 .. Len(items_with_priority) |-> items_with_priority[j].item]

\* the return values of the methods, as one record shape
Result(op) ==
    [op |-> op, success |-> FALSE, items |-> <<>>, count |-> 0, locked |-> FALSE,
     lock_id |-> None, lock_expires_at |-> None, items_acknowledged |-> None,
     message |-> "", error_code |-> "", saves |-> 0]

\* history: the items of a lock entry list get the status st
Mark(st, items_with_priority, value) ==
    [x \in DOMAIN st |->
        IF \E j \in 1 .. Len(items_with_priority) : items_with_priority[j].item = x
        THEN value ELSE st[x]]

NumPushed == LET RECURSIVE Sum(_)
                 Sum(S) == IF S = {} THEN 0
                           ELSE LET p == CHOOSE x \in S : TRUE
                                IN Len(pushed[p]) + Sum(S \ {p})
             IN Sum(Priorities)

PriorityInputs == {PyInt(p) : p \in Priorities \cup {-1}} \cup {PyTrue, PyFloat}

LockIdInputs == LockIds \cup {None}

Init ==
    /\ config \in [segment_size : 1 .. MaxSegmentSize,
                   buffer_segments : 0 .. MaxBufferSegments]
    /\ queues = <<>>
    /\ lock = NoLock
    /\ segs = <<>>
    /\ bulk = <<>>
    /\ now = 0
    /\ res = Result("activate")
    /\ pushed = [p \in Priorities |-> <<>>]
    /\ status = <<>>
    /\ popped = 0
    /\ acked = 0

\* Push({"item": item, "priority": priority}), at most max_push times with a
\* valid item
PushUpTo(max_push, item_is_dict, priority, o) ==
    IF ~item_is_dict
    THEN /\ res' = Result("Push")
         /\ UNCHANGED <<config, queues, lock, segs, bulk, now, pushed, status, popped, acked>>
    ELSE IF ~IsInstanceInt(priority) \/ priority.value < 0
    THEN /\ res' = Result("Push")
         /\ UNCHANGED <<config, queues, lock, segs, bulk, now, pushed, status, popped, acked>>
    ELSE /\ Len(status) < max_push
         /\ \E item \in {Len(status) + 1}, p \in {Format(priority)} :
            \E w \in {PushItem(World(queues, lock, segs, bulk), config, p, item, o)} :
               /\ queues' = w.queues
               /\ segs' = w.segs
               /\ bulk' = w.bulk
               /\ res' = [Result("Push") EXCEPT !.success = TRUE, !.saves = w.saves]
               /\ pushed' = IF p \in Priorities
                             THEN [pushed EXCEPT ![p] = Append(@, item)]
                             ELSE pushed
               /\ status' = Append(status, "queued")
         /\ UNCHANGED <<config, lock, now, popped, acked>>

\* Push({"item": item, "priority": priority})
Push(item_is_dict, priority, o) == PushUpTo(MaxPush, item_is_dict, priority, o)

\* Pop()
Pop(o) ==
    \E r \in {PopItem(World(queues, lock, segs, bulk), config, o)} :
       /\ queues' = r.w.queues
       /\ segs' = r.w.segs
       /\ bulk' = r.w.bulk
       /\ res' = [Result("Pop") EXCEPT !.items = r.items, !.count = Len(r.items),
                                       !.saves = r.w.saves]
       /\ status' = IF r.items = <<>> THEN status
                    ELSE [status EXCEPT ![r.items[1]] = "popped"]
       /\ popped' = popped + Len(r.items)
       /\ UNCHANGED <<config, lock, now, pushed, acked>>

\* PopWithAck({"ttl_seconds": ttl_seconds}); lock_id is what
\* secrets.token_urlsafe(8) returns this time
\* sm_ok: the state manager answers inside _return_items_to_queue
PopWithAckSm(sm_ok, ttl_seconds, lock_id, o) ==
    IF lock # NoLock /\ LockStillValid(lock, now)
    THEN /\ res' = [Result("PopWithAck") EXCEPT
                      !.locked = TRUE, !.lock_expires_at = lock.expires_at,
                      !.message = "Queue is locked pending acknowledgement"]
         /\ UNCHANGED <<config, queues, lock, segs, bulk, now, pushed, status, popped, acked>>
    ELSE
    \E w1 \in {IF lock # NoLock
                THEN [ReturnItemsToQueueSm(World(queues, lock, segs, bulk), config,
                                           lock.items_with_priority, o, sm_ok)
                        EXCEPT !.lock = NoLock, !.saves = @ + 1]
                ELSE World(queues, lock, segs, bulk)} :
    \E r \in {PopWithAckLoop(w1, config, GetPriorityKeys(w1.queues), 1, o)} :
       LET st1 == IF lock # NoLock
                  THEN Mark(status, lock.items_with_priority,
                            IF sm_ok THEN "queued" ELSE "expired")
                  ELSE status
           ttl == ClampTtl(ttl_seconds)
           expires_at == now + ttl
       IN /\ queues' = r.w.queues
          /\ segs' = r.w.segs
          /\ bulk' = r.w.bulk
          /\ IF NoItems(r.items_with_priority)
             THEN /\ lock' = r.w.lock
                  /\ res' = [Result("PopWithAck") EXCEPT !.saves = r.w.saves]
                  /\ status' = st1
             ELSE /\ lock' = [lock_id |-> lock_id,
                              items_with_priority |-> r.items_with_priority,
                              expires_at |-> expires_at,
                              created_at |-> now]
                  /\ res' = [Result("PopWithAck") EXCEPT
                               !.items = ItemsOf(r.items_with_priority),
                               !.count = Len(r.items_with_priority),
                               !.locked = TRUE,
                               !.lock_id = lock_id,
                               !.lock_expires_at = expires_at,
                               !.saves = r.w.saves + 1]
                  /\ status' = Mark(st1, r.items_with_priority, "held")
          /\ UNCHANGED <<config, now, pushed, popped, acked>>

PopWithAck(ttl_seconds, lock_id, o) == PopWithAckSm(TRUE, ttl_seconds, lock_id, o)

\* Acknowledge({"lock_id": lock_id}); None = no lock_id given
Acknowledge(lock_id) ==
    IF NotGiven(lock_id)
    THEN /\ res' = [Result("Acknowledge") EXCEPT !.message = "lock_id is required"]
         /\ UNCHANGED <<config, queues, lock, segs, bulk, now, pushed, status, popped, acked>>
    ELSE IF lock = NoLock
    THEN /\ res' = [Result("Acknowledge") EXCEPT !.message = "No active lock found"]
         /\ UNCHANGED <<config, queues, lock, segs, bulk, now, pushed, status, popped, acked>>
    ELSE IF LockHasExpired(lock, now)
    THEN /\ lock' = NoLock
         /\ res' = [Result("Acknowledge") EXCEPT !.message = "Lock has expired",
                                                 !.error_code = "LOCK_EXPIRED",
                                                 !.saves = 1]
         /\ status' = Mark(status, lock.items_with_priority, "expired")
         /\ UNCHANGED <<config, queues, segs, bulk, now, pushed, popped, acked>>
    ELSE IF ~LockIdMatches(lock, lock_id)
    THEN /\ res' = [Result("Acknowledge") EXCEPT !.message = "Invalid lock_id"]
         /\ UNCHANGED <<config, queues, lock, segs, bulk, now, pushed, status, popped, acked>>
    ELSE /\ lock' = NoLock
         /\ acked' = acked + Len(lock.items_with_priority)
         /\ res' = [Result("Acknowledge") EXCEPT
                      !.success = TRUE,
                      !.message = "Items acknowledged successfully",
                      !.items_acknowledged = ItemCount(lock),
                      !.saves = 1]
         /\ status' = Mark(status, lock.items_with_priority, "acked")
         /\ UNCHANGED <<config, queues, segs, bulk, now, pushed, popped>>

\* the wall clock advances between two invocations
Tick ==
    /\ now < MaxTime
    /\ now' = now + 1
    /\ UNCHANGED <<config, queues, lock, segs, bulk, res, pushed, status, popped, acked>>

\* a slip in the test: the metadata is taken for absent at every activation
HasMetadataNever(cfg) == FALSE

\* has_metadata, _ = try_get_state("metadata")
HasMetadata(cfg) == cfg # NoMetadata

\* _on_activate
OnActivate ==
    /\ IF ~HasMetadata(config)
       THEN /\ config' = [segment_size |-> DefaultSegmentSize,
                          buffer_segments |-> DefaultBufferSegments]
            /\ queues' = <<>>
            /\ lock' = NoLock
       ELSE UNCHANGED <<config, queues, lock>>
    /\ res' = Result("activate")
    /\ UNCHANGED <<segs, bulk, now, pushed, status, popped, acked>>

\* the state store answers every call
Next ==
    \/ \E p \in Priorities : Push(TRUE, PyInt(p), AllOk)
    \/ Pop(AllOk)
    \/ \E t \in TtlInputs, id \in LockIds : PopWithAck(t, id, AllOk)
    \/ \E id \in LockIds : Acknowledge(id)
    \/ Tick

Spec == Init /\ [][Next]_vars

\* any call to the state store may fail
NextFaults ==
    \/ \E p \in Priorities, o \in Oracles : Push(TRUE, PyInt(p), o)
    \/ \E o \in Oracles : Pop(o)
    \/ \E o \in Oracles : PopWithAck(0, 1, o)   \* the shortest lock, named 1
    \/ Acknowledge(1)
    \/ Tick

\* callers that also send what the methods reject: an item that is no dict,
\* a priority that is negative or no int, no lock_id
NextInputs ==
    \/ \E d \in BOOLEAN, p \in PriorityInputs : Push(d, p, AllOk)
    \/ Pop(AllOk)
    \/ PopWithAck(0, 1, AllOk)      \* the shortest lock, always named 1
    \/ \E id \in LockIdInputs : Acknowledge(id)
    \/ Tick

\* callers that choose the ttl of every PopWithAck freely
NextTtl ==
    \/ \E p \in Priorities : Push(TRUE, PyInt(p), AllOk)
    \/ \E t \in TtlValues : PopWithAck(t, 1, AllOk)   \* every lock is named 1
    \/ Acknowledge(1)
    \/ Tick

\* the plain queue: no pop with acknowledgement is ever issued
NextQueue ==
    \/ \E p \in Priorities : Push(TRUE, PyInt(p), AllOk)
    \/ Pop(AllOk)

\* one priority and one lock name, with more items
NextCapacity ==
    \/ PushUpTo(MaxPushCapacity, TRUE, PyInt(0), AllOk)
    \/ Pop(AllOk)
    \/ PopWithAck(0, 1, AllOk)
    \/ Acknowledge(1)
    \/ Tick

\* an instance is constructed with or without metadata in its state, and
\* the runtime activates it before it hands it a call, and again at any
\* later time (restart, move to another host)
InitActivate ==
    /\ config \in [segment_size : 1 .. MaxSegmentSize,
                   buffer_segments : 0 .. MaxBufferSegments] \cup {NoMetadata}
    /\ queues = <<>>
    /\ lock = NoLock
    /\ segs = <<>>
    /\ bulk = <<>>
    /\ now = 0
    /\ res = Result("construct")
    /\ pushed = [p \in Priorities |-> <<>>]
    /\ status = <<>>
    /\ popped = 0
    /\ acked = 0

NextActivate ==
    \/ OnActivate
    \/ /\ res.op # "construct"
       /\ \/ \E p \in Priorities : Push(TRUE, PyInt(p), AllOk)
          \/ Pop(AllOk)
          \/ PopWithAck(0, 1, AllOk)
          \/ Acknowledge(1)
          \/ Tick

\* the state manager may fail inside the return of an expired lock's items
NextReturnFaults ==
    \/ \E p \in Priorities : Push(TRUE, PyInt(p), AllOk)
    \/ Pop(AllOk)
    \/ \E sm_ok \in BOOLEAN : PopWithAckSm(sm_ok, 0, 1, AllOk)
    \/ Acknowledge(1)
    \/ Tick

SpecQueue == Init /\ [][NextQueue]_vars

SpecReturnFaults == Init /\ [][NextReturnFaults]_vars

SpecActivate == InitActivate /\ [][NextActivate]_vars

SpecCapacity == Init /\ [][NextCapacity]_vars

SpecFaults == Init /\ [][NextFaults]_vars

SpecInputs == Init /\ [][NextInputs]_vars

SpecTtl == Init /\ [][NextTtl]_vars

\* ========================================================================
\* Properties
\* ========================================================================

Items == DOMAIN status

\* the priority an item was pushed to
PriorityOf(x) == CHOOSE p \in Priorities : \E j \in 1 .. Len(pushed[p]) : pushed[p][j] = x

Elems(seq) == {seq[j] : j \in 1 .. Len(seq)}

\* the items of priority p that are logically in the queue: pushed (or
\* returned from an expired lock) and not handed out since
Queued(p) == {x \in Elems(pushed[p]) : status[x] = "queued"}

\* the items held by the active lock
Held == IF lock = NoLock THEN {} ELSE Elems(ItemsOf(lock.items_with_priority))

\* a step in which Pop returned an item
PopReturned == popped' = popped + 1

\* a step in which PopWithAck returned an item (and created a lock)
PopWithAckReturned == lock' # lock /\ lock' # NoLock

\* a step that is one call of the method op (every call sets res; the clock
\* does not move during a call)
Called(op) == res'.op = op /\ now' = now

\* C1: FIFO within a priority.  With no pop-with-acknowledgement involved,
\* every item that Pop returns is an item still in the queue (so nothing is
\* returned twice) and every item pushed to the same priority before it has
\* already been returned (so nothing is skipped and the order is push order).
C1_FifoWithinPriority ==
    [][PopReturned =>
          LET x == res'.items[1]
          IN /\ x \in Items
             /\ status[x] = "queued"
             /\ \A y \in Elems(pushed[PriorityOf(x)]) : y < x => status[y] = "popped"]_vars

\* three items of one priority, one per segment, have all been popped
C1_Witness ==
    /\ config.segment_size = 1
    /\ \E p \in Priorities : Len(pushed[p]) = 3
    /\ popped = 3
    /\ res.op = "Pop" /\ res.items = <<3>>

\* C2: every Pop that returns an item returns the head (oldest queued) item
\* of the lowest priority that holds an item.
C2_PriorityOrder ==
    [][PopReturned =>
          /\ \E p \in Priorities : Queued(p) # {}
          /\ LET pmin == CHOOSE p \in Priorities :
                            /\ Queued(p) # {}
                            /\ \A q \in Priorities : Queued(q) # {} => p <= q
                 head == CHOOSE x \in Queued(pmin) : \A y \in Queued(pmin) : x <= y
             IN res'.items = <<head>>]_vars

\* C3: an item that was successfully acknowledged is never returned again by
\* Pop or PopWithAck.
C3_AckedNeverReturned ==
    [][(PopReturned \/ PopWithAckReturned) =>
          \A j \in 1 .. Len(res'.items) : status[res'.items[j]] # "acked"]_vars

\* the items stored for the record of priority p, in actor state or offloaded
StoredInQueue(p) ==
    UNION {(IF HasState(segs, <<p, n>>) THEN Elems(segs[<<p, n>>]) ELSE {})
           \cup (IF HasState(bulk, <<p, n>>) THEN Elems(JsonLoads(bulk[<<p, n>>])) ELSE {})
           : n \in queues[p].head_segment .. queues[p].tail_segment}

\* C4: an item taken by PopWithAck and not acknowledged does not disappear:
\* until it is handed out again it is held by the lock or stored in a queue.
C4_UnackedItemNeverLost ==
    \A x \in Items :
        status[x] \in {"held", "expired"} =>
            \/ x \in Held
            \/ \E p \in DOMAIN queues : x \in StoredInQueue(p)

\* C5: a lock holds at least one item, and while a lock exists and has not
\* expired no PopWithAck call returns an item or touches the lock.
C5_LeaseAtMostOne ==
    /\ [](lock # NoLock => lock.items_with_priority # <<>>)
    /\ [][(lock # NoLock /\ now < lock.expires_at /\ Called("PopWithAck")) =>
             (res'.items = <<>> /\ lock' = lock)]_vars

\* a PopWithAck was refused by a live lock although an item was waiting
C5_Witness ==
    /\ lock # NoLock /\ now < lock.expires_at
    /\ res.op = "PopWithAck" /\ res.locked /\ res.items = <<>>
    /\ \E p \in Priorities : Queued(p) # {}

\* C6: once the lock has expired, a plain Pop returns the locked item.
C6_PopReturnsExpiredItem ==
    [][(lock # NoLock /\ now >= lock.expires_at /\ Called("Pop")) =>
          res'.items = ItemsOf(lock.items_with_priority)]_vars

\* the world PopWithAck continues with after it has found the lock expired
AfterReturn ==
    ReturnItemsToQueue(World(queues, lock, segs, bulk), config,
                       lock.items_with_priority, AllOk)

\* C7: when PopWithAck finds the lock expired, the held item goes back to the
\* front of the head segment of its origin priority and to no other priority,
\* that priority's count grows by one (the record is created again if it was
\* gone), the old lock is removed, and if no lower priority holds an item the
\* same call returns that item under a new lock.
C7_ExpiredItemReturnsToOrigin ==
    /\ [](lock # NoLock /\ now >= lock.expires_at =>
            LET e == lock.items_with_priority[1]
                p == e.priority
                w == AfterReturn
                key == <<p, GetHeadSegment(queues, p)>>
                before == IF HasState(segs, key) THEN segs[key]
                          ELSE IF HasState(bulk, key) THEN JsonLoads(bulk[key])
                          ELSE <<>>
            IN /\ Len(lock.items_with_priority) = 1
               /\ p = PriorityOf(e.item)
               /\ p \in DOMAIN w.queues
               /\ w.queues[p].count = GetQueueCount(queues, p) + 1
               /\ w.queues[p].head_segment = GetHeadSegment(queues, p)
               /\ w.segs[key] = <<e.item>> \o before
               /\ \A k \in (DOMAIN w.segs) \cup (DOMAIN segs) :
                     k[1] # p => HasState(segs, k) /\ HasState(w.segs, k) /\ w.segs[k] = segs[k]
               /\ \A q \in DOMAIN w.queues : q # p => q \in DOMAIN queues /\ w.queues[q] = queues[q])
    /\ [][(lock # NoLock /\ now >= lock.expires_at /\ Called("PopWithAck")) =>
             LET e == lock.items_with_priority[1]
             IN /\ lock' # lock
                /\ (\A q \in Priorities : q < e.priority => Queued(q) = {}) =>
                      /\ res'.items = <<e.item>>
                      /\ res'.locked
                      /\ lock' # NoLock
                      /\ lock'.items_with_priority = <<e>>
                      /\ lock'.created_at = now]_vars

\* item 1 was locked, the lock expired, and the next PopWithAck handed item 1
\* out again although item 2 of the same priority was waiting
C7_Witness ==
    /\ pushed[1] = <<1, 2>>
    /\ res.op = "PopWithAck" /\ res.saves = 3 /\ res.items = <<1>>
    /\ lock # NoLock /\ lock.created_at = 1
    /\ status[1] = "held" /\ status[2] = "queued"

SumCounts ==
    LET RECURSIVE Sum(_)
        Sum(S) == IF S = {} THEN 0
                  ELSE LET p == CHOOSE x \in S : TRUE
                       IN queues[p].count + Sum(S \ {p})
    IN Sum(DOMAIN queues)

\* C8: count conservation: the counts of all priority records add up to the
\* pushes minus the items Pop returned, the items the lock holds and the
\* items acknowledged.
C8_CountConservation ==
    SumCounts = NumPushed - popped - Cardinality(Held) - acked

\* the length segment n of priority p is accounted with: an offloaded
\* segment counts as a full one
AccountedLen(p, n) ==
    IF /\ queues[p].head_offloaded_segment # None
       /\ queues[p].head_offloaded_segment <= n
       /\ n <= queues[p].tail_offloaded_segment
    THEN GetSegmentSize(config)
    ELSE IF HasState(segs, <<p, n>>) THEN Len(segs[<<p, n>>]) ELSE 0

SumSegments(p) ==
    LET RECURSIVE Sum(_)
        Sum(n) == IF n > queues[p].tail_segment THEN 0
                  ELSE AccountedLen(p, n) + Sum(n + 1)
    IN Sum(queues[p].head_segment)

\* C9: for every priority with a record, count equals the number of items in
\* the segments head_segment .. tail_segment.
C9_CountMatchesSegments ==
    \A p \in DOMAIN queues : queues[p].count = SumSegments(p)

\* C10: no item is both stored in an actor-state segment and held by the lock.
C10_HeldItemNotStored ==
    \A x \in Held : \A k \in DOMAIN segs : x \notin Elems(segs[k])

\* C11: a priority record exists exactly when its count is greater than
\* zero: no record has count 0, and every priority that still holds an item
\* (pushed or returned, and not handed out since) has a record.
C11_RecordIffCountPositive ==
    /\ \A p \in DOMAIN queues : queues[p].count > 0
    /\ \A p \in Priorities : Queued(p) # {} => p \in DOMAIN queues

\* C12: Pop returns exactly one item whenever an item is still in the queue,
\* returns the empty list and changes nothing when no priority holds an
\* item, and never returns more than one item.
C12_PopReturnsOne ==
    [][Called("Pop") =>
          /\ Len(res'.items) <= 1
          /\ (\E p \in Priorities : Queued(p) # {}) => Len(res'.items) = 1
          /\ (\A p \in Priorities : Queued(p) = {}) =>
                /\ res'.items = <<>>
                /\ UNCHANGED <<config, queues, lock, segs, bulk>>]_vars

\* a PopWithAck call that a live lock turned away
Blocked(r) == r.op = "PopWithAck" /\ r.locked /\ r.items = <<>>

\* C13: Acknowledge with the lock_id of the active lock, before it expires,
\* succeeds, reports as items_acknowledged the number of held items, removes
\* the lock and leaves every segment, count and pointer as it was; with the
\* lock gone, no PopWithAck is turned away as locked.
C13_AcknowledgeValid ==
    /\ [][\A id \in LockIds :
             (lock # NoLock /\ now < lock.expires_at /\ id = lock.lock_id
                /\ Acknowledge(id)) =>
                   /\ res'.success
                   /\ res'.items_acknowledged = Cardinality(Held)
                   /\ lock' = NoLock
                   /\ UNCHANGED <<config, queues, segs, bulk>>]_vars
    /\ [][(lock = NoLock /\ Called("PopWithAck")) => ~Blocked(res')]_vars

\* the lock on one item was acknowledged while another item was queued
C13_Witness ==
    /\ res.op = "Acknowledge" /\ res.success /\ res.items_acknowledged = 1
    /\ lock = NoLock /\ acked = 1
    /\ \E p \in Priorities : Queued(p) # {}

\* C14: Acknowledge with a lock_id other than that of the active, unexpired
\* lock fails and changes nothing, neither the lock nor the queues; an
\* Acknowledge with the right lock_id that follows it before the expiry
\* succeeds.
C14_AcknowledgeWrongId ==
    /\ [][\A id \in LockIds :
             (lock # NoLock /\ now < lock.expires_at /\ id # lock.lock_id
                /\ Acknowledge(id)) =>
                   /\ ~res'.success
                   /\ UNCHANGED <<config, queues, lock, segs, bulk>>]_vars
    /\ [][(res.op = "Acknowledge" /\ res.message = "Invalid lock_id"
             /\ lock # NoLock /\ now < lock.expires_at
             /\ Acknowledge(lock.lock_id)) =>
                (res'.success /\ lock' = NoLock)]_vars

\* an Acknowledge with the wrong lock_id was refused and the lock is live
C14_Witness ==
    /\ res.op = "Acknowledge" /\ ~res.success /\ res.message = "Invalid lock_id"
    /\ lock # NoLock /\ now < lock.expires_at
    /\ Held # {}

C16_PopWithAckWhileLocked ==
    [][\A t \in TtlInputs, id \in LockIds :
          (lock # NoLock /\ now < lock.expires_at /\ PopWithAck(t, id, AllOk)) =>
              /\ res'.locked
              /\ res'.items = <<>>
              /\ res'.count = 0
              /\ res'.lock_expires_at = lock.expires_at
              /\ UNCHANGED <<config, queues, lock, segs, bulk>>]_vars

\* a PopWithAck was turned away at the time the lock was created
C16_Witness ==
    /\ Blocked(res) /\ res.count = 0 /\ res.lock_id = None
    /\ lock # NoLock /\ res.lock_expires_at = lock.expires_at
    /\ now = lock.created_at

\* C17: PopWithAck with no lock and no item in any queue returns
\* locked = false, count 0, no item and no lock_id, and creates no lock.
C17_PopWithAckEmpty ==
    [][(lock = NoLock /\ (\A p \in Priorities : Queued(p) = {})
          /\ Called("PopWithAck")) =>
              /\ ~res'.locked
              /\ res'.count = 0
              /\ res'.items = <<>>
              /\ res'.lock_id = None
              /\ lock' = NoLock]_vars

\* PopWithAck found nothing after the only item pushed had been popped
C17_Witness ==
    /\ res.op = "PopWithAck" /\ ~res.locked /\ res.items = <<>>
    /\ lock = NoLock
    /\ Len(status) = 1 /\ popped = 1

\* C18: Push with an item that is no map, or with a priority that is
\* negative or no integer, reports failure and changes nothing.
C18_PushInvalid ==
    [][\A d \in BOOLEAN, p \in PriorityInputs :
          ((~d \/ p.type # "int" \/ p.value < 0) /\ Push(d, p, AllOk)) =>
              /\ ~res'.success
              /\ UNCHANGED <<config, queues, lock, segs, bulk>>]_vars

\* C19: Acknowledge without a lock_id, or when no lock exists, reports
\* failure and changes nothing.
C19_AcknowledgeNothing ==
    [][\A id \in LockIdInputs :
          ((id = None \/ lock = NoLock) /\ Acknowledge(id)) =>
              /\ ~res'.success
              /\ UNCHANGED <<config, queues, lock, segs, bulk>>]_vars

\* an Acknowledge without lock_id was refused while an expired lock exists
C19_Witness ==
    /\ res.op = "Acknowledge" /\ res.message = "lock_id is required"
    /\ lock # NoLock /\ now >= lock.expires_at

\* C20: a lock created at time now expires at now + ttl_seconds, with
\* ttl_seconds taken as 30 when absent, as 1 when below 1 and as 300 when
\* above 300; PopWithAck returns that time as lock_expires_at.
C20_TtlClamped ==
    [][\A t \in TtlValues :
          (PopWithAck(t, 1, AllOk) /\ lock' # lock /\ lock' # NoLock) =>
              LET ttl == IF t = None THEN 30
                         ELSE IF t < 1 THEN 1
                         ELSE IF t > 300 THEN 300 ELSE t
              IN /\ lock'.expires_at = now + ttl
                 /\ res'.lock_expires_at = lock'.expires_at]_vars

\* a lock created at time 1 with the largest ttl
C20_Witness ==
    /\ res.op = "PopWithAck" /\ res.locked /\ res.items # <<>>
    /\ lock # NoLock /\ lock.created_at = 1
    /\ res.lock_expires_at = 301

\* the offloaded range of priority p as a set of segment numbers
OffloadedSet(p) ==
    LET r == GetOffloadedRange(queues, p)
    IN IF r = <<>> THEN {} ELSE r[1] .. r[2]

\* the numbers of the segments of priority p that hold items in actor state
ResidentSet(p) == {k[2] : k \in {x \in DOMAIN segs : x[1] = p /\ segs[x] # <<>>}}

\* C21: whenever a priority has an offloaded range,
\* head_segment < head_offloaded <= tail_offloaded <= tail_segment, for any
\* buffer_segments >= 0 and also when calls to the state store fail.
C21_OffloadedRangeInterior ==
    \A p \in DOMAIN queues :
        LET r == GetOffloadedRange(queues, p)
        IN r # <<>> =>
              /\ queues[p].head_segment < r[1]
              /\ r[1] <= r[2]
              /\ r[2] <= queues[p].tail_segment

\* C22: segment contiguity: for every priority with a record, the segments
\* resident in actor state together with the offloaded range are exactly
\* the segments head_segment .. tail_segment.
C22_SegmentContiguity ==
    \A p \in DOMAIN queues :
        ResidentSet(p) \cup OffloadedSet(p)
            = queues[p].head_segment .. queues[p].tail_segment

\* the first priority, in the order Pop visits them, whose count is not 0
FirstPriority ==
    LET S == {p \in DOMAIN queues : p >= 0 /\ queues[p].count # 0}
    IN IF S = {} THEN None ELSE CHOOSE p \in S : \A q \in S : p <= q

\* the first reload that a consuming call would make for priority p does
\* not succeed under oracle o: the read fails or the entry is missing
ReloadFails(p, o) ==
    LET r == GetOffloadedRange(queues, p)
    IN /\ r # <<>>
       /\ r[1] <= GetHeadSegment(queues, p) + GetBufferSegments(config)
       /\ (~BulkOk(o, 1) \/ ~HasState(bulk, <<p, r[1]>>))

\* C23: if the reload of an offloaded segment fails, the consuming Pop or
\* PopWithAck returns no item and leaves the priority's record (count,
\* pointers, offloaded range) as it was; no item of a later priority is
\* taken instead.
C23_ReloadFailureAborts ==
    [][\A o \in Oracles :
          (FirstPriority # None /\ ReloadFails(FirstPriority, o)
             /\ (Pop(o) \/ (lock = NoLock /\ PopWithAck(0, 1, o)))) =>
                /\ res'.items = <<>>
                /\ FirstPriority \in DOMAIN queues'
                /\ queues'[FirstPriority] = queues[FirstPriority]]_vars

\* C24: a Push reports success and sets count and pointers whatever the
\* state store does with the offload; every segment is afterwards either
\* resident with its items or offloaded with them; and if the writes of the
\* offload fail, the metadata and the segments are exactly as the Push
\* committed them.
C24_OffloadFailureHarmless ==
    [][\A p \in Priorities, o \in Oracles :
          Push(TRUE, PyInt(p), o) =>
             LET c == PushCommit(World(queues, lock, segs, bulk), config, p,
                                 Len(status) + 1)
             IN /\ res'.success
                /\ queues'[p].count = c.queues[p].count
                /\ queues'[p].head_segment = c.queues[p].head_segment
                /\ queues'[p].tail_segment = c.queues[p].tail_segment
                /\ \A k \in DOMAIN c.segs :
                      \/ HasState(segs', k) /\ segs'[k] = c.segs[k]
                      \/ /\ HasState(bulk', k)
                         /\ JsonLoads(bulk'[k]) = c.segs[k]
                         /\ queues'[k[1]].head_offloaded_segment <= k[2]
                         /\ k[2] <= queues'[k[1]].tail_offloaded_segment
                /\ o = NoneOk =>
                      /\ queues' = c.queues
                      /\ segs' = c.segs
                      /\ bulk' = bulk]_vars

\* the Push of the newest item left a full segment resident that lies
\* beyond the buffer and before the tail: its offload was tried and failed
C24_Witness ==
    /\ res.op = "Push" /\ res.success /\ res.saves = 1
    /\ \E p \in DOMAIN queues :
          LET n == queues[p].head_segment + GetBufferSegments(config) + 1
          IN /\ n < queues[p].tail_segment
             /\ HasState(segs, <<p, n>>)
             /\ Len(segs[<<p, n>>]) = GetSegmentSize(config)
             /\ HasState(segs, <<p, queues[p].tail_segment>>)
             /\ segs[<<p, queues[p].tail_segment>>] = <<Len(status)>>
             /\ bulk = <<>>

\* C25: one invocation calls save_state at most once.
C25_SingleCommit ==
    res.op \in {"Push", "Pop", "PopWithAck", "Acknowledge"} => res.saves <= 1

\* the items of priority p resident in actor state
ResidentItems(p) ==
    LET K == {x \in DOMAIN segs : x[1] = p}
        RECURSIVE Sum(_)
        Sum(S) == IF S = {} THEN 0
                  ELSE LET k == CHOOSE x \in S : TRUE
                       IN Len(segs[k]) + Sum(S \ {k})
    IN Sum(K)

\* what the head segment of p holds beyond segment_size: only the return of
\* the items of an expired lock makes a segment longer than segment_size
ReturnSurplus(p) ==
    LET key == <<p, GetHeadSegment(queues, p)>>
    IN IF HasState(segs, key)
       THEN Max(0, Len(segs[key]) - GetSegmentSize(config))
       ELSE 0

\* C26: with an answering state store, the items of a priority resident in
\* actor state number at most (buffer_segments + 2) * segment_size plus the
\* surplus of returned items.
C26_CapacityBound ==
    \A p \in Priorities :
        ResidentItems(p) <= (GetBufferSegments(config) + 2) * GetSegmentSize(config)
                              + ReturnSurplus(p)

\* C27: an activation that finds no metadata writes the metadata with
\* segment_size 100, buffer_segments 1 and no queues; an activation that
\* finds metadata changes neither the configuration nor the queues, the
\* segments, the offloaded segments or the active lock.
C27_ActivationInitialises ==
    [][OnActivate =>
         IF config = NoMetadata
         THEN /\ config' = [segment_size |-> 100, buffer_segments |-> 1]
              /\ queues' = <<>>
              /\ lock' = NoLock
         ELSE UNCHANGED <<config, queues, lock, segs, bulk>>]_vars

\* an instance that was given its metadata by its first activation has been
\* activated again while it holds queued items and an active lock
C27_Witness ==
    /\ res.op = "activate"
    /\ config = [segment_size |-> 100, buffer_segments |-> 1]
    /\ queues # <<>>
    /\ lock # NoLock

\* ceil(n / d)
CeilDiv(n, d) == (n + d - 1) \div d

\* nothing but Pushes has touched priority p: every item pushed to it is
\* still queued and no lock was ever created
OnlyPushed(p) ==
    /\ pushed[p] # <<>>
    /\ \A x \in Elems(pushed[p]) : status[x] = "queued"
    /\ lock = NoLock /\ popped = 0 /\ acked = 0
    /\ \A x \in Items : status[x] = "queued"

\* the segments of p hold the n items of pushed[p] in order, segment_size
\* to a segment, the remainder in the tail
LayoutOf(p) ==
    LET n == Len(pushed[p])
        size == GetSegmentSize(config)
        tail == CeilDiv(n, size) - 1
        Stored(j) == IF HasState(segs, <<p, j>>) THEN segs[<<p, j>>]
                     ELSE IF HasState(bulk, <<p, j>>) THEN JsonLoads(bulk[<<p, j>>])
                     ELSE <<>>
    IN /\ p \in DOMAIN queues
       /\ queues[p].head_segment = 0
       /\ queues[p].tail_segment = tail
       /\ queues[p].count = n
       /\ \A j \in 0 .. tail :
             Stored(j) = SubSeq(pushed[p], j * size + 1, Min(n, (j + 1) * size))

\* C28: a Push to a priority that has no record leaves head_segment = 0,
\* tail_segment = 0 and count = 1 with the item alone in segment 0; a Push
\* to a priority that has a record adds one to count, keeps head_segment and
\* moves tail_segment on by one exactly when the tail segment it finds
\* holds segment_size items or more; so after n Pushes and nothing else the
\* record has head_segment = 0, tail_segment = ceil(n / segment_size) - 1
\* and count = n, with segment_size items in every segment below the tail.
C28_SegmentLayout ==
    /\ [](\A p \in Priorities : OnlyPushed(p) => LayoutOf(p))
    /\ [][\A p \in Priorities :
            (Called("Push") /\ pushed'[p] # pushed[p]) =>
               LET size == GetSegmentSize(config)
                   item == Len(status) + 1
                   tail == GetTailSegment(queues, p)
                   found == IF HasState(segs, <<p, tail>>) THEN segs[<<p, tail>>] ELSE <<>>
               IN IF p \notin DOMAIN queues
                  THEN /\ queues'[p].head_segment = 0
                       /\ queues'[p].tail_segment = 0
                       /\ queues'[p].count = 1
                       /\ segs'[<<p, 0>>] = <<item>>
                  ELSE /\ queues'[p].count = queues[p].count + 1
                       /\ queues'[p].head_segment = queues[p].head_segment
                       /\ queues'[p].tail_segment =
                              IF Len(found) >= size THEN tail + 1 ELSE tail]_vars

\* segment n of priority p, in actor state or in the state store
StoredSegment(p, n) ==
    IF HasState(segs, <<p, n>>) THEN segs[<<p, n>>]
    ELSE IF HasState(bulk, <<p, n>>) THEN JsonLoads(bulk[<<p, n>>])
    ELSE <<>>

\* the priority whose head segment has item x at its front
HeadPriorityOf(x) ==
    CHOOSE p \in DOMAIN queues :
        LET head == StoredSegment(p, queues[p].head_segment)
        IN queues[p].count > 0 /\ head # <<>> /\ head[1] = x

\* C29: a Pop that takes the last item of the head segment of a priority
\* moves head_segment on by one, leaves the drained segment empty and takes
\* one from count when head_segment < tail_segment, and removes the record
\* of the priority when head_segment = tail_segment; once every pushed item
\* has been returned by a Pop there is no record left, and a Pop that finds
\* no record returns nothing.
C29_PopSegmentTransition ==
    /\ [][(Called("Pop") /\ res'.items # <<>>) =>
            LET p == HeadPriorityOf(res'.items[1])
                head_segment == queues[p].head_segment
                tail_segment == queues[p].tail_segment
            IN Len(StoredSegment(p, head_segment)) = 1 =>
                 IF head_segment < tail_segment
                 THEN /\ p \in DOMAIN queues'
                      /\ queues'[p].head_segment = head_segment + 1
                      /\ queues'[p].tail_segment = tail_segment
                      /\ queues'[p].count = queues[p].count - 1
                      /\ segs'[<<p, head_segment>>] = <<>>
                 ELSE p \notin DOMAIN queues']_vars
    /\ []((status # <<>> /\ \A x \in Items : status[x] = "popped") => queues = <<>>)
    /\ [][(Called("Pop") /\ queues = <<>>) => res'.items = <<>>]_vars

\* three items of one priority, one per segment, have been popped: the head
\* moved over segments 0 and 1, and the third Pop removed the record
C29_Witness ==
    /\ config.segment_size = 1
    /\ \E p \in Priorities :
          /\ pushed[p] = <<1, 2, 3>>
          /\ \A n \in 0 .. 2 : HasState(segs, <<p, n>>) /\ segs[<<p, n>>] = <<>>
    /\ \A x \in Items : status[x] = "popped"
    /\ queues = <<>>
    /\ res.op = "Pop" /\ res.items = <<3>> /\ acked = 0 /\ lock = NoLock

\* C30: a PopWithAck that starts with no lock and returns an item leaves
\* the records, the segments and the offloaded segments exactly as a Pop
\* from the same state leaves them, and returns the item that Pop returns.
C30_PopWithAckRemovesAsPop ==
    [][(Called("PopWithAck") /\ lock = NoLock /\ res'.items # <<>>) =>
         LET r == PopItem(World(queues, lock, segs, bulk), config, AllOk)
         IN /\ res'.items = r.items
            /\ queues' = r.w.queues
            /\ segs' = r.w.segs
            /\ bulk' = r.w.bulk]_vars

\* the segments of p from head_segment to tail_segment, resident or
\* offloaded, one after the other
RECURSIVE ConcatSegments(_, _, _)
ConcatSegments(p, n, tail_segment) ==
    IF n > tail_segment THEN <<>>
    ELSE StoredSegment(p, n) \o ConcatSegments(p, n + 1, tail_segment)

\* the abstract queue of p: what was pushed and not popped, in push order
AbstractQueue(p) == SelectSeq(pushed[p], LAMBDA x : status[x] = "queued")

\* C31: with Pushes and Pops only and an answering state store, the
\* segments of a priority from head to tail, resident and offloaded, read
\* one after the other are the items pushed and not yet popped, in push
\* order; a priority with no record holds none.
C31_AbstractFifo ==
    \A p \in Priorities :
        AbstractQueue(p) =
            IF p \in DOMAIN queues
            THEN ConcatSegments(p, queues[p].head_segment, queues[p].tail_segment)
            ELSE <<>>

\* three items of one priority, one per segment and no buffer: item 2 went
\* to the state store, came back and has been popped; item 3 is queued
C31_Witness ==
    /\ config = [segment_size |-> 1, buffer_segments |-> 0]
    /\ \E p \in Priorities :
          /\ pushed[p] = <<1, 2, 3>>
          /\ AbstractQueue(p) = <<3>>
          /\ HasState(segs, <<p, 1>>)
    /\ bulk = <<>>
    /\ res.op = "Pop" /\ res.items = <<2>>

\* the segments a step writes to the state store
WrittenToStore == {k \in DOMAIN bulk' : k \notin DOMAIN bulk \/ bulk'[k] # bulk[k]}

\* C32: a Push to priority p writes segment n of priority q to the state
\* store only if q = p, head_segment + buffer_segments < n < tail_segment,
\* the segment was in actor state with exactly segment_size items, and n
\* was not in the offloaded range; the segment then leaves actor state.
C32_OffloadEligibility ==
    [][\A p \in Priorities :
         (Called("Push") /\ pushed'[p] # pushed[p]) =>
            \A k \in WrittenToStore :
               LET n == k[2]
                   r == GetOffloadedRange(queues, p)
               IN /\ k[1] = p
                  /\ queues'[p].head_segment + GetBufferSegments(config) < n
                  /\ n < queues'[p].tail_segment
                  /\ HasState(segs, k)
                  /\ Len(segs[k]) = GetSegmentSize(config)
                  /\ JsonLoads(bulk'[k]) = segs[k]
                  /\ ~(r # <<>> /\ r[1] <= n /\ n <= r[2])
                  /\ ~HasState(segs', k)]_vars

\* four items, one per segment, with a buffer of one segment: the fourth
\* Push has sent segment 2 to the state store and kept 0, 1 and the tail
C32_Witness ==
    /\ config = [segment_size |-> 1, buffer_segments |-> 1]
    /\ res.op = "Push" /\ res.saves = 2
    /\ 0 \in DOMAIN queues
    /\ queues[0].head_segment = 0 /\ queues[0].tail_segment = 3
    /\ DOMAIN bulk = {<<0, 2>>}
    /\ DOMAIN segs = {<<0, 0>>, <<0, 1>>, <<0, 3>>}

\* a step in which Pop, or a PopWithAck that found no lock, took an item
TookItem ==
    /\ res'.items # <<>>
    /\ \/ Called("Pop")
       \/ Called("PopWithAck") /\ lock = NoLock

\* C33: when Pop or PopWithAck takes an item of priority p, every segment
\* m of the offloaded range of p with m <= head_segment + buffer_segments
\* is in actor state afterwards, is gone from the state store and is below
\* what is left of the offloaded range; the item taken is the first of the
\* head segment also when that segment had to come from the state store.
C33_ReloadPrecedesConsumption ==
    [][TookItem =>
         LET p == HeadPriorityOf(res'.items[1])
             head_segment == queues[p].head_segment
             r == GetOffloadedRange(queues, p)
             max_offloaded == head_segment + GetBufferSegments(config)
         IN r # <<>> =>
              \A m \in r[1] .. Min(r[2], max_offloaded) :
                 /\ HasState(segs', <<p, m>>)
                 /\ ~HasState(bulk', <<p, m>>)
                 /\ p \in DOMAIN queues' =>
                       LET r2 == GetOffloadedRange(queues', p)
                       IN r2 = <<>> \/ r2[1] > m]_vars

\* four items, one per segment, with a buffer of one segment: the second
\* Pop found head_segment = 1 and segment 2 in the state store, brought it
\* back and returned item 2
C33_Witness ==
    /\ config = [segment_size |-> 1, buffer_segments |-> 1]
    /\ pushed[0] = <<1, 2, 3, 4>>
    /\ res.op = "Pop" /\ res.items = <<2>>
    /\ popped = 2 /\ lock = NoLock /\ acked = 0
    /\ bulk = <<>>
    /\ HasState(segs, <<0, 2>>) /\ segs[<<0, 2>>] = <<3>>
    /\ 0 \in DOMAIN queues /\ queues[0].head_segment = 2

\* what Pop, called with oracle o, finds for priority p after its reloads:
\* no head segment in actor state, or an empty one
FindsDesync(p, o) ==
    LET w1 == CheckAndLoadSegments(World(queues, lock, segs, bulk), config, p, o)
        key == <<p, GetHeadSegment(w1.queues, p)>>
    IN ~HasState(w1.segs, key) \/ w1.segs[key] = <<>>

\* the priority after p that holds an item, None if there is none
NextPriority(p) ==
    LET S == {q \in DOMAIN queues : q > p /\ queues[q].count # 0}
    IN IF S = {} THEN None ELSE CHOOSE q \in S : \A q2 \in S : q <= q2

\* C34: a Pop that finds the first priority with count > 0 without a head
\* segment, or with an empty one, removes the record of that priority and
\* commits (save_state is called in that invocation, also when the Pop
\* returns nothing), and returns the head item of the next priority that
\* holds one.
C34_DesyncSelfHeal ==
    [][\A o \in Oracles :
          (Pop(o) /\ FirstPriority # None /\ FindsDesync(FirstPriority, o)) =>
             LET p == FirstPriority
                 q == NextPriority(p)
             IN /\ p \notin DOMAIN queues'
                /\ res'.saves >= 1
                /\ (q # None /\ GetOffloadedRange(queues, q) = <<>>
                      /\ HasState(segs, <<q, queues[q].head_segment>>)
                      /\ segs[<<q, queues[q].head_segment>>] # <<>>) =>
                        res'.items = <<segs[<<q, queues[q].head_segment>>][1]>>]_vars

\* C35: every Pop leaves the lock as it found it, whether there is none, a
\* valid one or an expired one; it returns the head item of the first
\* priority that holds one also while a lock is active; and it puts no
\* item into the queue: no count grows and no segment gains an item.
C35_PopIgnoresLock ==
    [][Called("Pop") =>
         /\ lock' = lock
         /\ FirstPriority # None =>
               LET head == StoredSegment(FirstPriority, queues[FirstPriority].head_segment)
               IN head # <<>> => res'.items = <<head[1]>>
         /\ \A p \in DOMAIN queues' :
               p \in DOMAIN queues /\ queues'[p].count <= queues[p].count
         /\ \A k \in DOMAIN segs' :
               Elems(segs'[k]) \subseteq Elems(StoredSegment(k[1], k[2]))]_vars

\* a Pop returned an item of the queue while another item is held by a
\* lock that has not expired
C35_Witness ==
    /\ res.op = "Pop" /\ res.items # <<>>
    /\ lock # NoLock
    /\ now < lock.expires_at
    /\ \A x \in Held : status[x] = "held" /\ x \notin Elems(res.items)

\* after the step, item x is in the queue of priority p: p has a record
\* and x is in one of its segments from head to tail, resident or offloaded
InQueueAfter(x, p) ==
    /\ p \in DOMAIN queues'
    /\ \E n \in queues'[p].head_segment .. queues'[p].tail_segment :
          \/ HasState(segs', <<p, n>>) /\ x \in Elems(segs'[<<p, n>>])
          \/ /\ ~HasState(segs', <<p, n>>) /\ HasState(bulk', <<p, n>>)
             /\ x \in Elems(JsonLoads(bulk'[<<p, n>>]))

\* C36: a PopWithAck that removes an expired lock leaves each item the
\* lock held either in the queue of the priority it came from or in the
\* new lock, also when the return of the items fails inside
\* _return_items_to_queue.
C36_ReturnBeforeLockRemoval ==
    [][(Called("PopWithAck") /\ lock # NoLock /\ lock' # lock) =>
         \A j \in 1 .. Len(lock.items_with_priority) :
            LET e == lock.items_with_priority[j]
            IN \/ /\ lock' # NoLock
                  /\ e.item \in Elems(ItemsOf(lock'.items_with_priority))
               \/ InQueueAfter(e.item, e.priority)]_vars

\* C37: every segment number inside the offloaded range of a priority has
\* an entry in the state store and no copy in actor state, and every entry
\* of the state store is inside the offloaded range of its priority, also
\* after offloads and reloads of which some steps failed.
C37_BulkStoreCorrespondence ==
    /\ \A p \in DOMAIN queues :
          LET r == GetOffloadedRange(queues, p)
          IN r # <<>> =>
               \A n \in r[1] .. r[2] :
                  HasState(bulk, <<p, n>>) /\ ~HasState(segs, <<p, n>>)
    /\ \A k \in DOMAIN bulk :
          /\ k[1] \in DOMAIN queues
          /\ LET r == GetOffloadedRange(queues, k[1])
             IN r # <<>> /\ r[1] <= k[2] /\ k[2] <= r[2]

\* C38: at every clock value PopWithAck and Acknowledge agree on the lock:
\* a PopWithAck is blocked by the lock exactly when now < expires_at, an
\* Acknowledge with the lock's id succeeds exactly when now < expires_at
\* and is rejected as expired exactly when now >= expires_at.
C38_ExpiryBoundaryConsistent ==
    [][lock # NoLock =>
         /\ Called("PopWithAck") =>
               ((lock' = lock /\ res'.locked /\ res'.items = <<>>)
                   <=> now < lock.expires_at)
         /\ Called("Acknowledge") =>
               /\ res'.success <=> now < lock.expires_at
               /\ res'.error_code = "LOCK_EXPIRED" <=> now >= lock.expires_at]_vars

\* an Acknowledge with the lock's id arrived at the very instant the lock
\* expired and was rejected
C38_Witness ==
    /\ res.op = "Acknowledge" /\ res.error_code = "LOCK_EXPIRED"
    /\ lock = NoLock
    /\ now = 1
    /\ \E x \in Items : status[x] = "expired"

\* C39: no segment in actor state or in the state store holds more than
\* segment_size + 1 items; a segment that holds more than segment_size is
\* the head segment of a priority that has a record; and the segment a
\* Push writes holds at most segment_size items afterwards, the Push
\* leaving every other segment as it was or moving it to the state store.
C39_SegmentSizeBound ==
    /\ [](\A k \in DOMAIN segs :
            /\ Len(segs[k]) <= GetSegmentSize(config) + 1
            /\ Len(segs[k]) > GetSegmentSize(config) =>
                  k[1] \in DOMAIN queues /\ k[2] = queues[k[1]].head_segment)
    /\ [](\A k \in DOMAIN bulk : Len(JsonLoads(bulk[k])) <= GetSegmentSize(config))
    /\ [][\A p \in Priorities :
            (Called("Push") /\ pushed'[p] # pushed[p]) =>
               LET tail == <<p, queues'[p].tail_segment>>
               IN /\ Len(segs'[tail]) <= GetSegmentSize(config)
                  /\ \A k \in DOMAIN segs' \ {tail} :
                        HasState(segs, k) /\ segs'[k] = segs[k]]_vars

\* the item of an expired lock has been put back in front of a head
\* segment that was full: it holds segment_size + 1 items
C39_Witness ==
    /\ res.op = "PopWithAck"
    /\ \E p \in DOMAIN queues :
          LET k == <<p, queues[p].head_segment>>
          IN /\ HasState(segs, k)
             /\ Len(segs[k]) = GetSegmentSize(config) + 1
             /\ Len(segs[k]) = queues[p].count

\* a step leaves priority q as it was: its record (count, pointers,
\* offloaded range), its segments and its offloaded segments
Untouched(q) ==
    /\ (q \in DOMAIN queues') <=> (q \in DOMAIN queues)
    /\ q \in DOMAIN queues => queues'[q] = queues[q]
    /\ \A k \in DOMAIN segs \cup DOMAIN segs' :
          k[1] = q => HasState(segs, k) /\ HasState(segs', k) /\ segs'[k] = segs[k]
    /\ \A k \in DOMAIN bulk \cup DOMAIN bulk' :
          k[1] = q => HasState(bulk, k) /\ HasState(bulk', k) /\ bulk'[k] = bulk[k]

\* a successful Push to priority p
PushedTo(p) == Called("Push") /\ pushed'[p] # pushed[p]

\* a Pop or PopWithAck that returned an item of priority p
TookFrom(p) ==
    /\ Called("Pop") \/ Called("PopWithAck")
    /\ res'.items # <<>>
    /\ res'.items[1] \in Items
    /\ PriorityOf(res'.items[1]) = p

\* the priorities a PopWithAck returns the items of an expired lock to
ReturnedTo ==
    IF Called("PopWithAck") /\ lock # NoLock
    THEN {lock.items_with_priority[j].priority : j \in 1 .. Len(lock.items_with_priority)}
    ELSE {}

\* the priorities before p that hold a count above 0: a pop that goes past
\* one of them has found it without a head segment and dropped its record
FoundDesynced(p) == {q \in DOMAIN queues : q >= 0 /\ q < p /\ queues[q].count > 0}

\* C40 as stated: a successful Push to p leaves every other priority and
\* the lock unchanged, and a Pop or PopWithAck that takes an item of p
\* leaves every other priority unchanged.
C40_PrioritiesIndependent ==
    [][\A p \in Priorities :
         /\ PushedTo(p) =>
               lock' = lock /\ \A q \in Priorities \ {p} : Untouched(q)
         /\ TookFrom(p) => \A q \in Priorities \ {p} : Untouched(q)]_vars

\* C40 amended: a successful Push to p leaves every other priority and the
\* lock unchanged; a Pop or PopWithAck that takes an item of p leaves
\* unchanged every other priority, except the priorities to which the
\* PopWithAck returns the items of an expired lock and the priorities
\* before p whose record the call drops as desynced.
C40_PrioritiesIndependentAmended ==
    [][\A p \in Priorities :
         /\ PushedTo(p) =>
               lock' = lock /\ \A q \in Priorities \ {p} : Untouched(q)
         /\ TookFrom(p) =>
               \A q \in Priorities \ ({p} \cup ReturnedTo \cup FoundDesynced(p)) :
                  Untouched(q)]_vars

\* a Pop has taken an item of one priority while another priority holds
\* items in a segment of the same number
C40_Witness ==
    /\ res.op = "Pop" /\ res.items # <<>>
    /\ \E q \in DOMAIN queues :
          /\ q # PriorityOf(res.items[1])
          /\ queues[q].count > 0
          /\ HasState(segs, <<q, 0>>) /\ segs[<<q, 0>>] # <<>>
          /\ HasState(segs, <<PriorityOf(res.items[1]), 0>>)

====
